---- MODULE Spec2Model ----
(***************************************************************************)
(* Model of gopher-patterns' db-testing package (src/db-testing/testdb.go): *)
(* the connection cache, CreateTestDB's provisioning of a test database,    *)
(* the post-init hooks, the transaction wrapping and the cleanups that the  *)
(* Go test framework runs when a test completes; and of its transaction     *)
(* package (src/unnamed/part_005): the ambient transaction and the          *)
(* row-locking flag carried by a context.Context.                           *)
(*                                                                          *)
(* A "session" is one call of CreateTestDB.  Tests run concurrently; the    *)
(* calls one test makes are sequential.  t.Fatalf, t.Skipf and a failed     *)
(* require.NoError stop the test's goroutine (runtime.Goexit): the call     *)
(* never returns to its caller and the test's cleanups run.                 *)
(***************************************************************************)
EXTENDS Integers, Sequences, FiniteSets, TLC

\* ---------------------------------------------------------------- bounds
MaxSessions == 2
NameSpace == 2
MaxCtx == 3
MaxTransfers == 2
MaxOptions == 3
MaxNames == 1000

Tests == {"t1", "t2"}
Sessions == 1..MaxSessions
Names == 0..(NameSpace - 1)

\* ---------------------------------------------------------------- Env, Config
EnvTest == 0
EnvDev == 1
EnvOther == EnvDev + 1
Envs == {EnvTest, EnvDev, EnvOther}

GetConfigDefaultIsDev(env) ==
    IF env = EnvTest
    THEN [Host |-> "localhost", Port |-> 5432, User |-> "postgres",
          Password |-> "password", Database |-> "postgres"]
    ELSE [Host |-> "localhost", Port |-> 5433, User |-> "postgres",
          Password |-> "devpassword", Database |-> "nova_dev"]
GetConfig(env) ==
    CASE env = EnvTest ->
           [Host |-> "localhost", Port |-> 5432, User |-> "postgres",
            Password |-> "password", Database |-> "postgres"]
      [] env = EnvDev ->
           [Host |-> "localhost", Port |-> 5433, User |-> "postgres",
            Password |-> "devpassword", Database |-> "nova_dev"]
      [] OTHER ->
           [Host |-> "localhost", Port |-> 5432, User |-> "postgres",
            Password |-> "password", Database |-> "postgres"]

ConnString(c) ==
    <<"host=", c.Host, "port=", c.Port, "user=", c.User,
      "password=", c.Password, "dbname=", c.Database, "sslmode=disable">>

\* ---------------------------------------------------------------- options
Hooks == {"H1", "H2"}
DBDebugOff == "DBDebugOff"
DBNoWrapInTransaction == "DBNoWrapInTransaction"
DBWithHook(hook) == hook

ZeroOptions == [DebugOff |-> FALSE, NoWrapInTransaction |-> FALSE, PostInitHooks |-> <<>>]

ApplyOptionToggles(o, option) ==
    CASE option = DBDebugOff -> [o EXCEPT !.DebugOff = ~@]
      [] option = DBNoWrapInTransaction -> [o EXCEPT !.NoWrapInTransaction = ~@]
      [] OTHER -> [o EXCEPT !.PostInitHooks = Append(@, option)]
ApplyOption(o, option) ==
    CASE option = DBDebugOff -> [o EXCEPT !.DebugOff = TRUE]
      [] option = DBNoWrapInTransaction -> [o EXCEPT !.NoWrapInTransaction = TRUE]
      [] OTHER -> [o EXCEPT !.PostInitHooks = Append(@, option)]

RECURSIVE FoldOptions(_, _)
FoldOptions(o, options) ==
    IF options = <<>> THEN o
    ELSE FoldOptions(ApplyOption(o, Head(options)), Tail(options))

OptionLists ==
    { <<>>,
      <<DBDebugOff, DBWithHook("H1"), DBWithHook("H2")>>,
      <<DBWithHook("H2"), DBNoWrapInTransaction>> }


\* ---------------------------------------------------------------- state
VARIABLES
    session,            \* per CreateTestDB call: its locals and its position
    test,               \* per *testing.T: flags, registered cleanups, phase
    connections,        \* the cache: connString -> base connection
    connectionsMutex,   \* the holder of connectionsMutex, or NoHolder
    opened,             \* the base connections gorm.Open returned, by id
    closed,             \* the base connections whose pool has been closed
    databases,          \* the test databases that exist on the test server
    rows,               \* committed rows of each test database
    devRows,            \* committed rows of the shared development database
    ctxs,               \* the contexts derived so far (package transaction)
    txState,            \* per transaction: not begun, open, committed, rolled back
    txFuncCalls,        \* the calls of a txFunc that SetTxFunc has made
    balance,            \* committed balance of each account (banking example)
    transfer,           \* per TransferMoney call: its locals and its position
    optionsApplied,     \* the options CreateTestDB's loop has applied so far
    optsBuilt,          \* the dbOptions the loop has built from them
    envAsked,           \* the tag handed to GetConfig
    configGot,          \* the Config GetConfig returned for it
    testDBName,         \* the name Sprintf built from rand.Intn's draw
    generated,          \* how many names one run has generated
    distinctLow,        \* the probability that they are pairwise distinct, in
    distinctHigh        \* units of 1/Unit: a lower and an upper bound

dbVars == <<session, test, connections, connectionsMutex, opened, closed, databases, rows, devRows>>
ctxVars == <<ctxs, txState, txFuncCalls>>
bankVars == <<balance, transfer>>
fnVars == <<optionsApplied, optsBuilt, envAsked, configGot, testDBName>>
drawVars == <<generated, distinctLow, distinctHigh>>
vars == <<dbVars, ctxVars, bankVars, fnVars, drawVars>>
\* what the steps of each part leave alone
exceptDb == <<ctxVars, bankVars, fnVars, drawVars>>
exceptCtx == <<dbVars, bankVars, fnVars, drawVars>>
exceptBank == <<dbVars, ctxVars, fnVars, drawVars>>
exceptFn == <<dbVars, ctxVars, bankVars, drawVars>>
exceptDraw == <<dbVars, ctxVars, bankVars, fnVars>>

\* probabilities are kept as whole numbers of 1/Unit
Unit == 2 * 1000000

NoHolder == 0
NoName == <<>>
\* the decimal digits %d prints for n >= 0
RECURSIVE Digits(_)
Digits(n) == IF n < 10 THEN <<n>> ELSE Append(Digits(n \div 10), n % 10)
\* fmt.Sprintf("test_db_%d", n)
TestDBName(n) == <<"test_db_">> \o Digits(n)
TestDBNames == {TestDBName(n) : n \in Names}

HookRow(s, k) == <<"hook", s, k>>
TestRow(s) == <<"test", s, 0>>

NoMsg == <<"", 0>>

InitSession ==
    [test |-> "none", env |-> EnvTest, opts |-> ZeroOptions, pc |-> "idle",
     baseDB |-> 0, err |-> FALSE, version |-> "", name |-> NoName, created |-> FALSE,
     conn |-> "none", tx |-> "none", pending |-> {}, db |-> "nil", i |-> 0,
     hookLog |-> <<>>, result |-> "nil", wrote |-> FALSE, failedAt |-> "none",
     dropIssued |-> FALSE, txOn |-> "nil"]

InitTest ==
    [phase |-> "running", failed |-> FALSE, skipped |-> FALSE, cleanups |-> <<>>,
     cur |-> 0, msg |-> NoMsg, cstep |-> 0]

\* the banking example: two accounts with a deposit each, no call running
Accounts == {"Alice", "Bob"}
InitialDeposit == 2
Transfers == 1..MaxTransfers
NoWrites == <<>>
InitTransfer ==
    [pc |-> "idle", fromID |-> "Alice", toID |-> "Alice", amount |-> 0,
     fromAccount |-> 0, toAccount |-> 0, writes |-> NoWrites, err |-> "none",
     before |-> <<>>, after |-> <<>>, alone |-> TRUE]

Init ==
    /\ session = [s \in Sessions |-> InitSession]
    /\ test = [t \in Tests |-> InitTest]
    /\ connections = <<>>
    /\ connectionsMutex = NoHolder
    /\ opened = <<>>
    /\ closed = {}
    /\ databases = {}
    /\ rows = [n \in TestDBNames |-> {}]
    /\ devRows = {}
    /\ ctxs = <<>>
    /\ txState = [id \in {"tx1", "tx2", "txf"} |-> "none"]
    /\ txFuncCalls = <<>>
    /\ balance = [a \in Accounts |-> InitialDeposit]
    /\ transfer = [x \in Transfers |-> InitTransfer]
    /\ optionsApplied = <<>>
    /\ optsBuilt = ZeroOptions
    /\ envAsked = EnvTest
    /\ configGot = GetConfig(EnvTest)
    /\ testDBName = NoName
    /\ generated = 0
    /\ distinctLow = Unit
    /\ distinctHigh = Unit

\* ---------------------------------------------------------------- helpers
\* What a failed require.NoError, t.Fatalf or t.Skipf does to the calling
\* session and its test: the goroutine exits, the call does not return.
Goexit(s, at) == [session EXCEPT ![s].pc = "goexit", ![s].failedAt = at]

\* The test function is over: the framework runs the registered cleanups, and
\* the test is complete when none is left.
PhaseAfterSkipsCleanups(cleanups) == "done"
PhaseAfter(cleanups) == IF cleanups = <<>> THEN "done" ELSE "cleanup"

FailNow(t, msg) ==
    [test EXCEPT ![t].failed = TRUE, ![t].phase = PhaseAfter(test[t].cleanups),
                 ![t].cur = 0, ![t].msg = msg]

SkipNow(t, msg) ==
    [test EXCEPT ![t].skipped = TRUE, ![t].phase = PhaseAfter(test[t].cleanups),
                 ![t].cur = 0, ![t].msg = msg]

\* rows committed in the database a session's connection points at
Committed(s) ==
    IF session[s].env = EnvDev THEN devRows
    ELSE IF session[s].name \in TestDBNames THEN rows[session[s].name] ELSE {}

\* rows a query through handle h of session s returns
Visible(s, h) ==
    Committed(s) \cup (IF h = "tx" THEN session[s].pending ELSE {})


\* ---------------------------------------------------------------- CreateTestDB: entry
\* the lowest session not yet used stands for the next call of CreateTestDB
NextSession(s) ==
    /\ session[s].pc = "idle"
    /\ \A r \in Sessions : r < s => session[r].pc # "idle"

\* tests are interchangeable: the first call is made by t1
TestInUse(t) == t = "t1" \/ \E r \in Sessions : session[r].test = "t1"
\* only tests that call CreateTestDB are modelled
HasSession(t) == \E r \in Sessions : session[r].test = t

\* the switch on env (lines 146, 187, 214)
EnvBranchDefaultIsTest(env) == IF env = EnvDev THEN "devOpen" ELSE "lock"
EnvBranch(env) ==
    CASE env = EnvTest -> "lock"
      [] env = EnvDev -> "devOpen"
      [] OTHER -> "unknown"

\* CreateTestDB(t, env, options...): fold the options, GetConfig, switch.
\* An unknown env is t.Fatalf at once.
Call(t, s, env, options) ==
    /\ test[t].phase = "running"
    /\ test[t].cur = 0
    /\ TestInUse(t)
    /\ NextSession(s)
    /\ LET opts == FoldOptions(ZeroOptions, options)
           started == [session EXCEPT ![s].test = t, ![s].env = env, ![s].opts = opts,
                                      ![s].pc = EnvBranch(env)]
       IN  IF EnvBranch(env) = "unknown"
           THEN /\ session' = [started EXCEPT ![s].pc = "goexit", ![s].failedAt = "env"]
                /\ test' = FailNow(t, <<"Unknown environment", env>>)
           ELSE /\ session' = started
                /\ test' = [test EXCEPT ![t].cur = s]
    /\ UNCHANGED <<connections, connectionsMutex, opened, closed, databases, rows, devRows>>
    /\ UNCHANGED exceptDb

\* ---------------------------------------------------------------- getCachedDB
ConnStringOf(s) == ConnString(GetConfig(session[s].env))

\* connectionsMutex.Lock() returns only when nobody holds the mutex
CanLockUnguarded(m) == TRUE
CanLock(m) == m = NoHolder

\* connectionsMutex.Lock();
\* if db, exists := connections[connString]; exists { return db, nil }
Lock(s) ==
    /\ session[s].pc = "lock"
    /\ CanLock(connectionsMutex)
    /\ connectionsMutex' = s
    /\ IF ConnStringOf(s) \in DOMAIN connections
       THEN session' = [session EXCEPT ![s].pc = "unlock",
                                       ![s].baseDB = connections[ConnStringOf(s)]]
       ELSE session' = [session EXCEPT ![s].pc = "open"]
    /\ UNCHANGED <<test, connections, opened, closed, databases, rows, devRows>>
    /\ UNCHANGED exceptDb

\* connections[connString] = db
Store(c, cs, db) == [k \in DOMAIN c \cup {cs} |-> IF k = cs THEN db ELSE c[k]]

\* gorm.Open of the base connection: it fails, or it returns a new connection
\* that is stored in the cache
Open(s) ==
    /\ session[s].pc = "open"
    /\ \E ok \in BOOLEAN :
         IF ok
         THEN LET id == Len(opened) + 1
              IN  /\ opened' = Append(opened, ConnStringOf(s))
                  /\ connections' = Store(connections, ConnStringOf(s), id)
                  /\ session' = [session EXCEPT ![s].pc = "unlock", ![s].baseDB = id]
         ELSE /\ session' = [session EXCEPT ![s].pc = "unlock", ![s].err = TRUE]
              /\ UNCHANGED <<opened, connections>>
    /\ UNCHANGED <<test, connectionsMutex, closed, databases, rows, devRows>>
    /\ UNCHANGED exceptDb

\* defer connectionsMutex.Unlock(): the holder of the mutex once getCachedDB
\* has returned, on the error return as on the others
ReleasedUnlessError(s, err) == IF err THEN s ELSE NoHolder
ReleasedNever(s, err) == s
Released(s, err) == NoHolder

\* defer connectionsMutex.Unlock(), the return, and the caller's
\* require.NoError(t, err, "failed to connect to base database")
Unlock(s) ==
    /\ session[s].pc = "unlock"
    /\ connectionsMutex' = Released(s, session[s].err)
    /\ IF session[s].err
       THEN /\ session' = Goexit(s, "base")
            /\ test' = FailNow(session[s].test, <<"failed to connect to base database", 0>>)
       ELSE /\ session' = [session EXCEPT ![s].pc = "ping"]
            /\ UNCHANGED test
    /\ UNCHANGED <<connections, opened, closed, databases, rows, devRows>>
    /\ UNCHANGED exceptDb


\* ---------------------------------------------------------------- the tail: hooks, wrapping, return
\* if !opts.NoWrapInTransaction
WrapAlways(o) == TRUE
WrapInTransaction(o) == ~o.NoWrapInTransaction

\* the order of the statements after the switch (lines 219-238)
TailOrderWrapFirst == <<"begin", "hooks", "return">>
TailOrder == <<"hooks", "begin", "return">>

StageNeeded(stage, o, i) ==
    CASE stage = "hooks" -> i < Len(o.PostInitHooks)
      [] stage = "begin" -> WrapInTransaction(o)
      [] OTHER -> TRUE

RECURSIVE NextStage(_, _, _)
NextStage(k, o, i) ==
    IF k >= Len(TailOrder) THEN "return"
    ELSE IF StageNeeded(TailOrder[k], o, i) THEN TailOrder[k]
    ELSE NextStage(k + 1, o, i)

StageIndex(stage) == CHOOSE k \in 1..Len(TailOrder) : TailOrder[k] = stage

\* a session record moved to the stage that follows stage k; reaching the
\* return statement hands the local db to the caller
Proceed(rec, k) ==
    LET nx == NextStage(k, rec.opts, rec.i)
    IN  IF nx = "return" THEN [rec EXCEPT !.pc = "returned", !.result = rec.db]
        ELSE [rec EXCEPT !.pc = nx]

\* the test's record once session record rec has taken its step
Returned(t, rec) == IF rec.pc = "returned" THEN [test EXCEPT ![t].cur = 0] ELSE test

\* ---------------------------------------------------------------- CreateTestDB: EnvTest
\* require.NoError(t, err); require.NotEmpty(t, version) after the liveness query
PingFatalIgnored(err) == FALSE
PingFatal(err) == err

\* the cache after the liveness query: CreateTestDB has no statement that
\* deletes from connections, whatever the query returned
CacheAfterPingEvicts(c, cs, err) ==
    IF err THEN [k \in DOMAIN c \ {cs} |-> c[k]] ELSE c
CacheAfterPing(c, cs, err) == c

\* baseDB.Raw("SELECT version()").Row().Scan(&version); require.NoError
Ping(s) ==
    /\ session[s].pc = "ping"
    /\ \E ok \in BOOLEAN :
         /\ IF PingFatal(~ok)
            THEN /\ session' = Goexit(s, "ping")
                 /\ test' = FailNow(session[s].test, <<"liveness", 0>>)
            ELSE /\ session' = [session EXCEPT ![s].pc = "create",
                                               ![s].version = IF ok THEN "PostgreSQL" ELSE ""]
                 /\ UNCHANGED test
         /\ connections' = CacheAfterPing(connections, ConnStringOf(s), ~ok)
    /\ UNCHANGED <<connectionsMutex, opened, closed, databases, rows, devRows>>
    /\ UNCHANGED exceptDb

\* rand.Intn draws any name; names are interchangeable, so of the names no
\* session has drawn yet only the lowest is considered
Drawn(n) == \E r \in Sessions : session[r].name = TestDBName(n)
Drawable(n) == \A m \in Names : m < n => Drawn(m)

\* require.NoError(t, err) after CREATE DATABASE
CreateFatalIgnored(err) == FALSE
CreateFatal(err) == err

\* testDBName := Sprintf("test_db_%d", rand.Intn(...)); CREATE DATABASE, which
\* the server refuses when a database of that name exists
Create(s) ==
    /\ session[s].pc = "create"
    /\ \E n \in Names :
         /\ Drawable(n)
         /\ LET name == TestDBName(n)
                err == name \in databases
            IN  IF CreateFatal(err)
                THEN /\ session' = [Goexit(s, "create") EXCEPT ![s].name = name]
                     /\ test' = FailNow(session[s].test, <<"create database", 0>>)
                     /\ UNCHANGED <<databases, rows>>
                ELSE /\ session' = [session EXCEPT ![s].pc = "connect", ![s].name = name,
                                                  ![s].created = ~err]
                     /\ databases' = databases \cup {name}
                     /\ rows' = IF err THEN rows ELSE [rows EXCEPT ![name] = {}]
                     /\ UNCHANGED test
    /\ UNCHANGED <<connections, connectionsMutex, opened, closed, devRows>>
    /\ UNCHANGED exceptDb

\* t.Cleanup(func() { sqlDB.Close(); baseDB.Exec("DROP DATABASE IF EXISTS ...") })
CloseDropCleanup(s) == [kind |-> "closeDrop", s |-> s]

\* db = testDB: the handle the tail works on is the dedicated connection,
\* not baseDB
TestHandleIsBase(rec) == "base"
TestHandle(rec) == "conn"

\* gorm.Open of the dedicated connection, require.NoError, t.Cleanup, db = testDB
Connect(s) ==
    /\ session[s].pc = "connect"
    /\ LET t == session[s].test
       IN  \E ok \in BOOLEAN :
             IF ok
             THEN LET rec == Proceed([session[s] EXCEPT !.conn = "open", !.db = TestHandle(session[s])], 1)
                  IN  /\ session' = [session EXCEPT ![s] = rec]
                      /\ test' = [Returned(t, rec) EXCEPT
                                    ![t].cleanups = Append(@, CloseDropCleanup(s))]
             ELSE /\ session' = Goexit(s, "connect")
                  /\ test' = FailNow(t, <<"connect", 0>>)
    /\ UNCHANGED <<connections, connectionsMutex, opened, closed, databases, rows, devRows>>
    /\ UNCHANGED exceptDb

\* ---------------------------------------------------------------- CreateTestDB: EnvDev
\* gorm.Open of the shared database; an error is t.Skipf
DevOpen(s) ==
    /\ session[s].pc = "devOpen"
    /\ \E ok \in BOOLEAN :
         IF ok
         THEN /\ session' = [session EXCEPT ![s].pc = "devPing", ![s].conn = "open"]
              /\ UNCHANGED test
         ELSE /\ session' = Goexit(s, "devOpen")
              /\ test' = SkipNow(session[s].test, <<"Dev database not available", 0>>)
    /\ UNCHANGED <<connections, connectionsMutex, opened, closed, databases, rows, devRows>>
    /\ UNCHANGED exceptDb

\* the EnvDev branch calls t.Cleanup nowhere: nothing closes devDB
DevCleanupsCloseDrop(s) == <<CloseDropCleanup(s)>>
DevCleanups(s) == <<>>

\* devDB.Raw("SELECT version()"); an error is t.Skipf; else db = devDB
DevPing(s) ==
    /\ session[s].pc = "devPing"
    /\ LET t == session[s].test
       IN  \E ok \in BOOLEAN :
             IF ok
             THEN LET rec == Proceed([session[s] EXCEPT !.db = "conn"], 1)
                  IN  /\ session' = [session EXCEPT ![s] = rec]
                      /\ test' = [Returned(t, rec) EXCEPT
                                    ![t].cleanups = @ \o DevCleanups(s)]
             ELSE /\ session' = Goexit(s, "devPing")
                  /\ test' = SkipNow(t, <<"Dev database not accessible", 0>>)
    /\ UNCHANGED <<connections, connectionsMutex, opened, closed, databases, rows, devRows>>
    /\ UNCHANGED exceptDb


\* ---------------------------------------------------------------- writes through a handle
\* a statement through the plain connection commits at once; one through a
\* transaction handle stays pending in that transaction
PendingAfter(rec, h, row) == IF h = "tx" THEN rec.pending \cup {row} ELSE rec.pending

CommitThrough(s, h, row) ==
    /\ rows' = IF h = "conn" /\ session[s].env # EnvDev
               THEN [rows EXCEPT ![session[s].name] = @ \cup {row}]
               ELSE rows
    /\ devRows' = IF h = "conn" /\ session[s].env = EnvDev
                  THEN devRows \cup {row}
                  ELSE devRows

\* ---------------------------------------------------------------- post-init hooks
\* "Post-init hook %d failed", i+1
HookFailPositionZeroBased(i) == i
HookFailPosition(i) == i + 1

\* one iteration of: for i, hook := range opts.PostInitHooks { err := hook(db); require.NoError }
Hook(s) ==
    /\ session[s].pc = "hooks"
    /\ LET t == session[s].test
           cur == session[s]
           i == cur.i
           entry == [hook |-> cur.opts.PostInitHooks[i + 1], handle |-> cur.db, tx |-> cur.tx,
                     saw |-> {k \in 1..i : HookRow(s, k) \in Visible(s, cur.db)}]
       IN  \E ok \in BOOLEAN :
             IF ok
             THEN LET rec == Proceed([cur EXCEPT !.i = i + 1,
                                                 !.hookLog = Append(@, entry),
                                                 !.pending = PendingAfter(cur, cur.db, HookRow(s, i + 1))],
                                     StageIndex("hooks"))
                  IN  /\ session' = [session EXCEPT ![s] = rec]
                      /\ test' = Returned(t, rec)
                      /\ CommitThrough(s, cur.db, HookRow(s, i + 1))
             ELSE /\ session' = [Goexit(s, "hook") EXCEPT ![s].hookLog = Append(@, entry)]
                  /\ test' = FailNow(t, <<"Post-init hook failed", HookFailPosition(i)>>)
                  /\ UNCHANGED <<rows, devRows>>
    /\ UNCHANGED <<connections, connectionsMutex, opened, closed, databases>>
    /\ UNCHANGED exceptDb

\* ---------------------------------------------------------------- transaction wrapping
\* t.Cleanup(func() { tx.Rollback() })
NoRollbackCleanups(s) == <<>>
RollbackCleanups(s) == <<[kind |-> "rollback", s |-> s]>>

\* db = tx
UnwrappedHandle(s) == "conn"
WrappedHandle(s) == "tx"

\* tx := db.Begin(); require.NoError(t, tx.Error); t.Cleanup(rollback); db = tx
Begin(s) ==
    /\ session[s].pc = "begin"
    /\ LET t == session[s].test
       IN  \E ok \in BOOLEAN :
             IF ok
             THEN LET rec == Proceed([session[s] EXCEPT !.tx = "open", !.txOn = session[s].db,
                                                         !.db = WrappedHandle(s)],
                                     StageIndex("begin") + 1)
                  IN  /\ session' = [session EXCEPT ![s] = rec]
                      /\ test' = [Returned(t, rec) EXCEPT
                                    ![t].cleanups = @ \o RollbackCleanups(s)]
             ELSE /\ session' = Goexit(s, "begin")
                  /\ test' = FailNow(t, <<"begin", 0>>)
    /\ UNCHANGED <<connections, connectionsMutex, opened, closed, databases, rows, devRows>>
    /\ UNCHANGED exceptDb

\* ---------------------------------------------------------------- the test body
\* the test creates a row through the handle CreateTestDB returned
TestWrite(s) ==
    /\ session[s].pc = "returned"
    /\ test[session[s].test].phase = "running"
    /\ ~session[s].wrote
    /\ session' = [session EXCEPT ![s].wrote = TRUE,
                                  ![s].pending = PendingAfter(session[s], session[s].result, TestRow(s))]
    /\ CommitThrough(s, session[s].result, TestRow(s))
    /\ UNCHANGED <<test, connections, connectionsMutex, opened, closed, databases>>
    /\ UNCHANGED exceptDb

\* the test function returns
TestEnd(t) ==
    /\ test[t].phase = "running"
    /\ test[t].cur = 0
    /\ HasSession(t)
    /\ test' = [test EXCEPT ![t].phase = PhaseAfter(test[t].cleanups)]
    /\ UNCHANGED <<session, connections, connectionsMutex, opened, closed, databases, rows, devRows>>
    /\ UNCHANGED exceptDb


\* ---------------------------------------------------------------- cleanups at test completion
\* the statements of the cleanup registered at lines 177-183, in order
CloseDropStepsDropFirst == <<"drop", "close">>
CloseDropSteps == <<"close", "drop">>

\* the cleanup the framework runs next: the one registered last
Top(t) == test[t].cleanups[Len(test[t].cleanups)]
Pop(t) == SubSeq(test[t].cleanups, 1, Len(test[t].cleanups) - 1)

\* the test's record after one statement of the close-and-drop cleanup
AfterCloseDropStep(t) ==
    IF test[t].cstep + 1 = Len(CloseDropSteps)
    THEN [test EXCEPT ![t].cleanups = Pop(t), ![t].cstep = 0, ![t].phase = PhaseAfter(Pop(t))]
    ELSE [test EXCEPT ![t].cstep = @ + 1]

InCloseDrop(t, step) ==
    /\ test[t].phase = "cleanup"
    /\ test[t].cleanups # <<>>
    /\ Top(t).kind = "closeDrop"
    /\ CloseDropSteps[test[t].cstep + 1] = step

\* the cleanups drop the results of Rollback, Close and Exec: an error of
\* theirs does not fail the test
CleanupFatalOnError(err) == err
CleanupFatal(err) == FALSE

\* tx.Rollback() on a session record: the transaction ends and its writes are
\* discarded; on a transaction that has ended it returns an error
TxRollback(rec) ==
    [rec EXCEPT !.tx = IF @ = "open" THEN "rolledback" ELSE @, !.pending = {}]
TxRollbackErr(rec) == rec.tx # "open"

\* tx.Rollback()
CleanupRollback(t) ==
    /\ test[t].phase = "cleanup"
    /\ test[t].cleanups # <<>>
    /\ Top(t).kind = "rollback"
    /\ LET s == Top(t).s
       IN  /\ session' = [session EXCEPT ![s] = TxRollback(@)]
           /\ test' = [test EXCEPT ![t].cleanups = Pop(t), ![t].phase = PhaseAfter(Pop(t)),
                                   ![t].failed = @ \/ CleanupFatal(TxRollbackErr(session[s]))]
    /\ UNCHANGED <<connections, connectionsMutex, opened, closed, databases, rows, devRows>>
    /\ UNCHANGED exceptDb

\* sqlDB.Close() on a session record; closing a closed pool is no error
SqlDBClose(rec) == [rec EXCEPT !.conn = "closed"]

\* the base connections that Close closes: the pool is testDB's, the
\* dedicated connection, never baseDB's
BaseClosedWithTestDB(rec) == {rec.baseDB}
BaseClosed(rec) == {}

\* sqlDB, _ := testDB.DB(); if sqlDB != nil { sqlDB.Close() }
CleanupClose(t) ==
    /\ InCloseDrop(t, "close")
    /\ session' = [session EXCEPT ![Top(t).s] = SqlDBClose(@)]
    /\ closed' = closed \cup BaseClosed(session[Top(t).s])
    /\ test' = AfterCloseDropStep(t)
    /\ UNCHANGED <<connections, connectionsMutex, opened, databases, rows, devRows>>
    /\ UNCHANGED exceptDb

\* a database with a connection open to it cannot be dropped
InUse(name) ==
    \E r \in Sessions :
        session[r].env = EnvTest /\ session[r].name = name /\ session[r].conn = "open"

\* DROP DATABASE IF EXISTS <name>: refused while the database is in use, and
\* no error when there is no such database
DropErr(name) == InUse(name)
DropDatabase(dbs, name) == IF DropErr(name) THEN dbs ELSE dbs \ {name}

\* baseDB.Exec("DROP DATABASE IF EXISTS <testDBName>"), its error ignored
CleanupDrop(t) ==
    /\ InCloseDrop(t, "drop")
    /\ LET s == Top(t).s
           name == session[s].name
       IN  /\ session' = [session EXCEPT ![s].dropIssued = TRUE]
           /\ databases' = DropDatabase(databases, name)
           /\ rows' = IF DropErr(name) THEN rows ELSE [rows EXCEPT ![name] = {}]
           /\ test' = [AfterCloseDropStep(t) EXCEPT
                          ![t].failed = @ \/ CleanupFatal(DropErr(name))]
    /\ UNCHANGED <<connections, connectionsMutex, opened, closed, devRows>>
    /\ UNCHANGED exceptDb

\* ---------------------------------------------------------------- specification
Next ==
    \/ \E t \in Tests, s \in Sessions, env \in Envs, options \in OptionLists :
           Call(t, s, env, options)
    \/ \E s \in Sessions : Lock(s)
    \/ \E s \in Sessions : Open(s)
    \/ \E s \in Sessions : Unlock(s)
    \/ \E s \in Sessions : Ping(s)
    \/ \E s \in Sessions : Create(s)
    \/ \E s \in Sessions : Connect(s)
    \/ \E s \in Sessions : DevOpen(s)
    \/ \E s \in Sessions : DevPing(s)
    \/ \E s \in Sessions : Hook(s)
    \/ \E s \in Sessions : Begin(s)
    \/ \E s \in Sessions : TestWrite(s)
    \/ \E t \in Tests : TestEnd(t)
    \/ \E t \in Tests : CleanupRollback(t)
    \/ \E t \in Tests : CleanupClose(t)
    \/ \E t \in Tests : CleanupDrop(t)

Spec == Init /\ [][Next]_vars

\* every test function returns or is stopped, every call of CreateTestDB runs
\* on, and the framework runs the cleanups of a test that is over: no step
\* that can be taken is put off for ever
FairSpec == Spec /\ WF_vars(Next)

\* ================================================================ package transaction
\* ---------------------------------------------------------------- *gorm.DB handles
\* context.Background(), the root every context derives from
Background == 0

\* a *gorm.DB: the connection or transaction it runs on, whether it carries
\* the FOR UPDATE locking clause, and the context of its statements
DB(id) == [id |-> id, locking |-> FALSE, ctx |-> Background]
\* (*gorm.DB)(nil)
NilDB == [id |-> "nil", locking |-> FALSE, ctx |-> Background]

Transactions == {DB("tx1"), DB("tx2")}
DefaultDBs == {DB("db")}
\* what a txFunc handed to SetTxFunc returns: a transaction it begins, or nil
TxFuncResults == {DB("txf"), NilDB}

\* db.WithContext(ctx): a new handle on the same connection
WithContext(db, c) == [db EXCEPT !.ctx = c]
\* db.Clauses(clause.Locking{Strength: "UPDATE"}): a new handle, db is untouched
Clauses(db) == [db EXCEPT !.locking = TRUE]

\* ---------------------------------------------------------------- context values
ctxKey == "ctxKey"
selectForUpdateKey == "selectForUpdateKey"
loggerKey == "logger"

\* interface values: the untyped nil ctx.Value returns for a missing key, a
\* *gorm.DB (nil pointer included), a bool, a logger
Absent == [kind |-> "nil"]
DBValue(db) == [kind |-> "*gorm.DB", db |-> db]
BoolValue(b) == [kind |-> "bool", b |-> b]
LoggerValue(l) == [kind |-> l]
Loggers == {"*zap.Logger", "other"}

Ctxs(h) == 0..Len(h)

\* context.WithValue(parent, key, val): a new context that points at its
\* parent; by names the function that derived it
WithValueInPlace(h, parent, key, val, by) ==
    Append(IF parent = Background THEN h
           ELSE [h EXCEPT ![parent].key = key, ![parent].val = val],
           [parent |-> parent, key |-> key, val |-> val, by |-> by])
WithValue(h, parent, key, val, by) ==
    Append(h, [parent |-> parent, key |-> key, val |-> val, by |-> by])

\* ctx.Value(key): the value of the nearest context of the chain that was
\* derived with this key
RECURSIVE ValueOutermost(_, _, _)
ValueOutermost(h, c, key) ==
    IF c = Background THEN Absent
    ELSE LET up == ValueOutermost(h, h[c].parent, key)
         IN  IF up # Absent THEN up
             ELSE IF h[c].key = key THEN h[c].val ELSE Absent

RECURSIVE Value(_, _, _)
Value(h, c, key) ==
    IF c = Background THEN Absent
    ELSE IF h[c].key = key THEN h[c].val
    ELSE Value(h, h[c].parent, key)

\* ---------------------------------------------------------------- the functions
\* Fix(db)(ctx)
FixPrefersTx(h, db, c) ==
    LET tx == Value(h, c, ctxKey)
    IN  IF tx # Absent /\ tx.db # NilDB THEN WithContext(tx.db, c) ELSE WithContext(db, c)
Fix(h, db, c) == WithContext(db, c)

\* IsSelectForUpdate(ctx)
IsSelectForUpdateOwnValueOnly(h, c) ==
    c # Background /\ h[c].key = selectForUpdateKey /\ h[c].val.b
IsSelectForUpdate(h, c) ==
    LET v == Value(h, c, selectForUpdateKey)
    IN  IF v # Absent THEN v.b ELSE FALSE

\* GetTx(ctx)
GetTxLocksAlways(h, c) ==
    LET tx == Value(h, c, ctxKey)
    IN  IF tx # Absent /\ tx.db # NilDB THEN Clauses(tx.db) ELSE NilDB
GetTxOnlyWhileOpen(h, c) ==
    LET tx == Value(h, c, ctxKey)
    IN  IF tx # Absent /\ tx.db # NilDB /\ txState[tx.db.id] \notin {"committed", "rolledback"}
        THEN IF IsSelectForUpdate(h, c) THEN Clauses(tx.db) ELSE tx.db
        ELSE NilDB
GetTx(h, c) ==
    LET tx == Value(h, c, ctxKey)
    IN  IF tx # Absent
        THEN LET db == tx.db
             IN  IF db # NilDB
                 THEN IF IsSelectForUpdate(h, c) THEN Clauses(db) ELSE db
                 ELSE NilDB
        ELSE NilDB

\* GetTxOrDefault(defaultDB)(ctx)
GetTxOrDefaultLocksDefault(h, defaultDB, c) ==
    LET tx == GetTx(h, c)
    IN  IF tx # NilDB THEN WithContext(tx, c)
        ELSE IF IsSelectForUpdate(h, c) THEN WithContext(Clauses(defaultDB), c)
        ELSE WithContext(defaultDB, c)
GetTxOrDefault(h, defaultDB, c) ==
    LET tx == GetTx(h, c)
    IN  IF tx # NilDB THEN WithContext(tx, c) ELSE WithContext(defaultDB, c)

\* fromTxFunc(txFunc)(ctx), txFunc(ctx) returning result
fromTxFuncResultAlways(h, result, c) == result
fromTxFunc(h, result, c) ==
    LET tx == GetTx(h, c)
    IN  IF tx # NilDB THEN tx ELSE result

\* MustGetTx(ctx): the transaction, or a panic, through the zap logger of the
\* context when there is one
Returns(db) == [outcome |-> "return", db |-> db, via |-> "none"]
Panics(via) == [outcome |-> "panic", db |-> NilDB, via |-> via]
MustGetTxNilWithoutLogger(h, c) ==
    LET tx == GetTx(h, c)
        logger == Value(h, c, loggerKey)
    IN  IF tx # NilDB THEN Returns(tx)
        ELSE IF logger # Absent /\ logger.kind = "*zap.Logger" THEN Panics("zap")
        ELSE Returns(NilDB)
MustGetTx(h, c) ==
    LET tx == GetTx(h, c)
        logger == Value(h, c, loggerKey)
    IN  IF tx # NilDB THEN Returns(tx)
        ELSE IF logger # Absent /\ logger.kind = "*zap.Logger" THEN Panics("zap")
        ELSE Panics("panic")

\* ---------------------------------------------------------------- deriving contexts
CanDerive(c) == c \in Ctxs(ctxs) /\ Len(ctxs) < MaxCtx

\* the identities of the transactions
TxIds == {tx.id : tx \in Transactions} \cup ({r.id : r \in TxFuncResults} \ {NilDB.id})

\* ctx' = SetTx(ctx, tx)
SetTx(c, tx) ==
    /\ CanDerive(c)
    /\ ctxs' = WithValue(ctxs, c, ctxKey, DBValue(tx), "SetTx")
    /\ UNCHANGED <<txState, txFuncCalls>>
    /\ UNCHANGED exceptCtx

\* fromTxFunc reaches "return txFunc(ctx)" only when GetTx(ctx) is nil
TxFuncCalledAlways(h, c) == TRUE
TxFuncCalled(h, c) == GetTx(h, c) = NilDB

\* txFunc(ctx), the caller's function: it returns nil, or the transaction txf,
\* which it begins when it has not been begun yet
TxFuncEffect(state, result) ==
    IF result.id \in DOMAIN state /\ state[result.id] = "none"
    THEN [state EXCEPT ![result.id] = "open"]
    ELSE state

\* ctx' = SetTxFunc(ctx, txFunc)
SetTxFunc(c, result) ==
    /\ CanDerive(c)
    /\ ctxs' = WithValue(ctxs, c, ctxKey, DBValue(fromTxFunc(ctxs, result, c)), "SetTxFunc")
    /\ IF TxFuncCalled(ctxs, c)
       THEN /\ txFuncCalls' = Append(txFuncCalls, [ctx |-> c, derived |-> Len(ctxs) + 1,
                                                   result |-> result])
            /\ txState' = TxFuncEffect(txState, result)
       ELSE UNCHANGED <<txState, txFuncCalls>>
    /\ UNCHANGED exceptCtx

\* ctx' = SelectForUpdate(ctx)
SelectForUpdate(c) ==
    /\ CanDerive(c)
    /\ ctxs' = WithValue(ctxs, c, selectForUpdateKey, BoolValue(TRUE), "SelectForUpdate")
    /\ UNCHANGED <<txState, txFuncCalls>>
    /\ UNCHANGED exceptCtx

\* ctx' = context.WithValue(ctx, "logger", logger), done by the application
WithLogger(c, l) ==
    /\ CanDerive(c)
    /\ ctxs' = WithValue(ctxs, c, loggerKey, LoggerValue(l), "WithValue")
    /\ UNCHANGED <<txState, txFuncCalls>>
    /\ UNCHANGED exceptCtx

CtxNext ==
    \/ \E c \in 0..MaxCtx, tx \in Transactions \cup {NilDB} : SetTx(c, tx)
    \/ \E c \in 0..MaxCtx, result \in TxFuncResults : SetTxFunc(c, result)
    \/ \E c \in 0..MaxCtx : SelectForUpdate(c)
    \/ \E c \in 0..MaxCtx, l \in Loggers : WithLogger(c, l)

CtxSpec == Init /\ [][CtxNext]_vars

\* ---------------------------------------------------------------- the owner of a transaction
\* the code that begins a transaction hands it to SetTx and ends it:
\* tx := db.Begin() ... tx.Rollback(), or db.Transaction(func(tx) error {...}),
\* which commits when the callback returns nil and rolls back otherwise
Begun(id) == txState[id] # "none"
\* transactions are interchangeable: the lowest one not begun stands for the next
TxOrder == <<"tx1", "tx2">>
NextToBegin(id) ==
    \A j, k \in 1..Len(TxOrder) : (TxOrder[k] = id /\ j < k) => Begun(TxOrder[j])

\* tx := db.Begin()
OwnerBegin(id) ==
    /\ txState[id] = "none"
    /\ NextToBegin(id)
    /\ txState' = [txState EXCEPT ![id] = "open"]
    /\ UNCHANGED <<ctxs, txFuncCalls>>
    /\ UNCHANGED exceptCtx

\* tx.Commit(), or db.Transaction after a callback that returned nil
OwnerCommit(id) ==
    /\ txState[id] = "open"
    /\ txState' = [txState EXCEPT ![id] = "committed"]
    /\ UNCHANGED <<ctxs, txFuncCalls>>
    /\ UNCHANGED exceptCtx

\* tx.Rollback(), or db.Transaction after a callback that returned an error
OwnerRollback(id) ==
    /\ txState[id] = "open"
    /\ txState' = [txState EXCEPT ![id] = "rolledback"]
    /\ UNCHANGED <<ctxs, txFuncCalls>>
    /\ UNCHANGED exceptCtx

\* the owner hands SetTx a transaction it has begun, or nil
OwnerNext ==
    \/ \E tx \in Transactions : OwnerBegin(tx.id)
    \/ \E id \in TxIds : OwnerCommit(id)
    \/ \E id \in TxIds : OwnerRollback(id)
    \/ \E c \in 0..MaxCtx, tx \in Transactions \cup {NilDB} :
           (tx # NilDB => Begun(tx.id)) /\ SetTx(c, tx)
    \/ \E c \in 0..MaxCtx, result \in TxFuncResults : SetTxFunc(c, result)
    \/ \E c \in 0..MaxCtx : SelectForUpdate(c)

OwnerSpec == Init /\ [][OwnerNext]_vars

\* ================================================================ the banking example
\* BankingService.TransferMoney (example_test.go) and UserService.TransferBalance
\* (transaction_test.go): db.Transaction(func(tx) { ctx = SetTx(ctx, tx); ... }).
\* The repository resolves the handle with GetTxOrDefault, so every statement of
\* a call runs in the call's transaction.  The server runs transactions at its
\* default level, READ COMMITTED: a statement reads what is committed when it
\* runs and what its own transaction wrote; a row written by a transaction is
\* locked for writing until that transaction ends.
Amounts == {1, 3}

Active(x) == transfer[x].pc \notin {"idle", "done"}
\* the lowest call not yet made stands for the next call
NextTransfer(x) ==
    /\ transfer[x].pc = "idle"
    /\ \A y \in Transfers : y < x => transfer[y].pc # "idle"

\* s.accRepo.GetAccount(ctx, id) inside the transaction
ReadBalance(x, id) ==
    IF id \in DOMAIN transfer[x].writes THEN transfer[x].writes[id] ELSE balance[id]

\* another transaction holds the write lock of the row
LockedByOther(x, id) ==
    \E y \in Transfers : y # x /\ Active(y) /\ id \in DOMAIN transfer[y].writes

\* the callback returned an error: db.Transaction rolls back and returns it
RolledBackWith(x, err) ==
    [transfer EXCEPT ![x].pc = "done", ![x].err = err, ![x].writes = NoWrites,
                     ![x].after = balance]

\* TransferMoney(ctx, fromID, toID, amount): db.Transaction begins, SetTx
TransferMoney(x, fromID, toID, amount) ==
    /\ NextTransfer(x)
    /\ transfer' = [y \in Transfers |->
                      IF y = x
                      THEN [transfer[x] EXCEPT !.pc = "getFrom", !.fromID = fromID,
                                               !.toID = toID, !.amount = amount,
                                               !.before = balance,
                                               !.alone = \A z \in Transfers : ~Active(z)]
                      ELSE IF Active(y) THEN [transfer[y] EXCEPT !.alone = FALSE]
                      ELSE transfer[y]]
    /\ UNCHANGED balance
    /\ UNCHANGED exceptBank

\* fromAccount, err := s.accRepo.GetAccount(ctx, fromID)
GetFromAccount(x) ==
    /\ transfer[x].pc = "getFrom"
    /\ transfer' = [transfer EXCEPT ![x].pc = "getTo",
                                    ![x].fromAccount = ReadBalance(x, transfer[x].fromID)]
    /\ UNCHANGED balance
    /\ UNCHANGED exceptBank

\* if fromAccount.Balance < amount { return fmt.Errorf("insufficient balance ...") }
Insufficient(has, needs) == has < needs

\* toAccount, err := s.accRepo.GetAccount(ctx, toID); the balance check
GetToAccount(x) ==
    /\ transfer[x].pc = "getTo"
    /\ LET toAccount == ReadBalance(x, transfer[x].toID)
       IN  IF Insufficient(transfer[x].fromAccount, transfer[x].amount)
           THEN transfer' = [RolledBackWith(x, "insufficient balance") EXCEPT
                               ![x].toAccount = toAccount]
           ELSE transfer' = [transfer EXCEPT ![x].pc = "debit", ![x].toAccount = toAccount]
    /\ UNCHANGED balance
    /\ UNCHANGED exceptBank

\* UPDATE accounts SET balance = newBalance WHERE id = ..., in the transaction:
\* it waits for the row's write lock, and it can fail
UpdateBalance(x, id, newBalance, next, failure) ==
    \E ok \in BOOLEAN :
        IF ok
        THEN /\ ~LockedByOther(x, id)
             /\ transfer' = [transfer EXCEPT ![x].pc = next,
                                             ![x].writes = Store(@, id, newBalance)]
        ELSE transfer' = RolledBackWith(x, failure)

\* s.accRepo.UpdateBalance(ctx, fromID, fromAccount.Balance-amount)
Debit(x) ==
    /\ transfer[x].pc = "debit"
    /\ UpdateBalance(x, transfer[x].fromID, transfer[x].fromAccount - transfer[x].amount,
                     "credit", "failed to debit source account")
    /\ UNCHANGED balance
    /\ UNCHANGED exceptBank

\* s.accRepo.UpdateBalance(ctx, toID, toAccount.Balance+amount)
Credit(x) ==
    /\ transfer[x].pc = "credit"
    /\ UpdateBalance(x, transfer[x].toID, transfer[x].toAccount + transfer[x].amount,
                     "commit", "failed to credit destination account")
    /\ UNCHANGED balance
    /\ UNCHANGED exceptBank

\* the callback returned nil: db.Transaction commits
Commit(x) ==
    /\ transfer[x].pc = "commit"
    /\ balance' = [a \in Accounts |-> ReadBalance(x, a)]
    /\ transfer' = [transfer EXCEPT ![x].pc = "done", ![x].writes = NoWrites,
                                    ![x].after = balance']
    /\ UNCHANGED exceptBank

BankNext ==
    \/ \E x \in Transfers, fromID \in Accounts, toID \in Accounts, amount \in Amounts :
           TransferMoney(x, fromID, toID, amount)
    \/ \E x \in Transfers : GetFromAccount(x)
    \/ \E x \in Transfers : GetToAccount(x)
    \/ \E x \in Transfers : Debit(x)
    \/ \E x \in Transfers : Credit(x)
    \/ \E x \in Transfers : Commit(x)

BankSpec == Init /\ [][BankNext]_vars

\* ================================================================ the functions CreateTestDB starts with
\* the values an option can be
Options == {DBDebugOff, DBNoWrapInTransaction} \cup {DBWithHook(h) : h \in Hooks}

\* one iteration of: for _, option := range options { option(&opts) }
ApplyNextOption(option) ==
    /\ Len(optionsApplied) < MaxOptions
    /\ optionsApplied' = Append(optionsApplied, option)
    /\ optsBuilt' = ApplyOption(optsBuilt, option)
    /\ UNCHANGED <<envAsked, configGot, testDBName>>
    /\ UNCHANGED exceptFn

\* Env is an int: the tags around the two that are declared
Tags == (EnvTest - 1)..(EnvOther + 1)

\* config := GetConfig(env)
LookupConfig(tag) ==
    /\ envAsked' = tag
    /\ configGot' = GetConfig(tag)
    /\ UNCHANGED <<optionsApplied, optsBuilt, testDBName>>
    /\ UNCHANGED exceptFn

\* rand.Intn(n) returns an integer of [0, n): the ends of the range, the
\* values where the number of digits changes, one in between
RandLimit == 10000000
IntnInclusive(n) == {0, n}
Intn(n) == {0, 9, 10, n \div 2, n - 1}

\* testDBName := fmt.Sprintf("test_db_%d", rand.Intn(10000000))
DrawName(n) ==
    /\ testDBName' = TestDBName(n)
    /\ UNCHANGED <<optionsApplied, optsBuilt, envAsked, configGot>>
    /\ UNCHANGED exceptFn

FnNext ==
    \/ \E option \in Options : ApplyNextOption(option)
    \/ \E tag \in Tags : LookupConfig(tag)
    \/ \E n \in Intn(RandLimit) : DrawName(n)

FnSpec == Init /\ [][FnNext]_vars

\* ---------------------------------------------------------------- the names of one run
\* rand.Intn(10000000) draws each of the RandLimit values with the same
\* probability, whatever was drawn before.  p is the probability that the k
\* names drawn so far are pairwise distinct: the next draw misses all k with
\* probability (RandLimit - k) / RandLimit.  The quotient is rounded up or
\* down, so that the two variables enclose the exact value.
CeilDiv(a, b) == (a + b - 1) \div b
StillDistinctWhatever(p, k, roundDown) == p
StillDistinct(p, k, roundDown) ==
    IF roundDown THEN p - CeilDiv(p * k, RandLimit)
    ELSE p - ((p * k) \div RandLimit)

\* one more call of CreateTestDB generates a name
GenerateName ==
    /\ generated < MaxNames
    /\ generated' = generated + 1
    /\ distinctLow' = StillDistinct(distinctLow, generated, TRUE)
    /\ distinctHigh' = StillDistinct(distinctHigh, generated, FALSE)
    /\ UNCHANGED exceptDraw

DrawNext == GenerateName

DrawSpec == Init /\ [][DrawNext]_vars



\* ================================================================ claims
SessTest(s) == test[session[s].test]
Started(s) == session[s].pc # "idle"
Completed(s) == Started(s) /\ SessTest(s).phase = "done"
\* the session's call returned a handle and its test is still running
Live(s) == session[s].pc = "returned" /\ SessTest(s).phase = "running"
Registered(s, kind) ==
    Started(s) /\ \E k \in 1..Len(SessTest(s).cleanups) :
                      SessTest(s).cleanups[k] = [kind |-> kind, s |-> s]

\* ---------------------------------------------------------------- C1
OpensOf(cs) == Cardinality({k \in 1..Len(opened) : opened[k] = cs})

\* C1: however concurrent getCachedDB calls interleave, a connection string
\* is opened successfully at most once, the cache maps it to that one
\* connection, and every caller that got a base connection got the cached one.
C1_OpenedOnceAndShared ==
    /\ \A k \in 1..Len(opened) : OpensOf(opened[k]) = 1
    /\ \A cs \in DOMAIN connections :
           /\ connections[cs] \in 1..Len(opened)
           /\ opened[connections[cs]] = cs
    /\ \A s \in Sessions :
           session[s].baseDB # 0 =>
               /\ ConnStringOf(s) \in DOMAIN connections
               /\ session[s].baseDB = connections[ConnStringOf(s)]

\* two calls of concurrently running tests hold the same base connection:
\* one opened it, the other found it in the cache
C1_Witness ==
    \E a, b \in Sessions :
        /\ a # b
        /\ session[a].test # session[b].test
        /\ session[a].pc \in {"ping", "create", "connect"}
        /\ session[b].pc = "unlock"
        /\ session[a].baseDB # 0
        /\ session[b].baseDB = session[a].baseDB

\* ---------------------------------------------------------------- C2
FatalStages == {"base", "ping", "create", "connect", "hook", "begin"}

\* C2: after a fatal condition during provisioning, once the test has
\* completed, no database the session created still exists and no connection
\* opened for the session is still open.
C2_NoLeakAfterFatal ==
    \A s \in Sessions :
        (session[s].failedAt \in FatalStages /\ Completed(s)) =>
            /\ session[s].created => session[s].name \notin databases
            /\ session[s].conn # "open"

\* ---------------------------------------------------------------- C3
\* C3 as stated: for every environment, a row written through the handle of
\* one live session is never read through the handle of another live session.
C3_IsolationEveryEnv ==
    \A a, b \in Sessions :
        (a # b /\ Live(a) /\ Live(b)) =>
            TestRow(a) \notin Visible(b, session[b].result)

\* C3 amended: the row is never read through the other handle when the writing
\* session is Isolated or was provisioned without DBNoWrapInTransaction.
C3_IsolationUnlessSharedNoWrap ==
    \A a, b \in Sessions :
        (a # b /\ Live(a) /\ Live(b)
           /\ (session[a].env = EnvTest \/ ~session[a].opts.NoWrapInTransaction)) =>
            TestRow(a) \notin Visible(b, session[b].result)

\* two live Shared sessions, both wrapped, each with a row written that it
\* reads back itself
C3_Witness ==
    \E a, b \in Sessions :
        /\ a # b /\ Live(a) /\ Live(b)
        /\ session[a].env = EnvDev /\ session[b].env = EnvDev
        /\ session[a].wrote /\ session[b].wrote
        /\ TestRow(a) \in Visible(a, session[a].result)
        /\ TestRow(b) \in Visible(b, session[b].result)

\* ---------------------------------------------------------------- C4
\* an Isolated session that got past CREATE DATABASE and whose database has
\* not been dropped by its cleanup
UsesName(s) ==
    /\ session[s].env = EnvTest
    /\ session[s].name # NoName
    /\ session[s].failedAt # "create"
    /\ ~session[s].dropIssued

\* C4: no two Isolated sessions that are provisioned and not yet cleaned up
\* use the same database name.
C4_UniqueLiveNames ==
    \A a, b \in Sessions :
        (a # b /\ UsesName(a) /\ UsesName(b)) => session[a].name # session[b].name

\* a session drew the name of a live session and was refused
C4_Witness ==
    \E a, b \in Sessions :
        /\ a # b
        /\ UsesName(a) /\ Live(a)
        /\ session[b].failedAt = "create"
        /\ session[b].name = session[a].name

\* ---------------------------------------------------------------- C5
\* C5: in the Shared environment a failed open or liveness query marks the
\* test skipped, not failed, and CreateTestDB returns nil to its caller.
C5_DevUnavailableSkipsAndReturnsNil ==
    \A s \in Sessions :
        session[s].failedAt \in {"devOpen", "devPing"} =>
            /\ SessTest(s).skipped
            /\ ~SessTest(s).failed
            /\ session[s].pc = "returned"
            /\ session[s].result = "nil"


\* ---------------------------------------------------------------- C6
\* C6: for every Isolated session the rollback of the wrapping transaction
\* runs before the dedicated connection is closed, and the close runs before
\* the database is dropped.
C6_RollbackCloseDrop ==
    \A s \in Sessions :
        session[s].env = EnvTest =>
            /\ (session[s].conn = "closed" /\ session[s].tx # "none") =>
                   session[s].tx = "rolledback"
            /\ session[s].dropIssued => session[s].conn = "closed"

\* a completed test that provisioned two wrapped Isolated sessions on the
\* same handle, both rolled back, closed and dropped
C6_Witness ==
    \E a, b \in Sessions :
        /\ a # b
        /\ session[a].test = session[b].test
        /\ Completed(a)
        /\ \A s \in {a, b} :
               /\ session[s].env = EnvTest
               /\ session[s].tx = "rolledback"
               /\ session[s].conn = "closed"
               /\ session[s].dropIssued

\* ---------------------------------------------------------------- C7
\* C7: hooks are invoked in the order their options were passed, each after
\* all earlier ones succeeded and with their effects visible; the first hook
\* that fails is the last one invoked, no transaction is begun, and the test
\* fails with that hook's 1-based position.
C7_HooksInOrderFirstFailureAborts ==
    \A s \in Sessions :
        LET log == session[s].hookLog
            hooks == session[s].opts.PostInitHooks
        IN  /\ Len(log) <= Len(hooks)
            /\ \A k \in 1..Len(log) :
                   /\ log[k].hook = hooks[k]
                   /\ log[k].saw = 1..(k - 1)
            /\ IF session[s].failedAt = "hook"
               THEN /\ Len(log) = session[s].i + 1
                    /\ session[s].tx = "none"
                    /\ SessTest(s).failed
                    /\ SessTest(s).msg = <<"Post-init hook failed", Len(log)>>
               ELSE Len(log) = session[s].i

\* the second of two hooks failed after the first succeeded
C7_Witness ==
    \E s \in Sessions :
        /\ session[s].failedAt = "hook"
        /\ Len(session[s].hookLog) = 2
        /\ session[s].i = 1

\* ---------------------------------------------------------------- C8
\* C8: every hook is invoked with the plain connection while no transaction
\* has been begun, and the rows of the hooks that succeeded stay committed
\* until the database is dropped, whatever DBNoWrapInTransaction says.
C8_HooksOnPlainConnection ==
    \A s \in Sessions :
        /\ \A k \in 1..Len(session[s].hookLog) :
               /\ session[s].hookLog[k].handle = "conn"
               /\ session[s].hookLog[k].tx = "none"
        /\ \A k \in 1..session[s].i :
               (session[s].env = EnvDev \/ ~session[s].dropIssued) =>
                   HookRow(s, k) \in Committed(s)

\* the wrapping transaction was rolled back and the hooks' rows are still there
C8_Witness ==
    \E s \in Sessions :
        /\ session[s].tx = "rolledback"
        /\ session[s].i = 2
        /\ ~session[s].dropIssued
        /\ {HookRow(s, 1), HookRow(s, 2)} \subseteq Committed(s)

\* ---------------------------------------------------------------- C9
\* C9: without DBNoWrapInTransaction a call that returns has begun a
\* transaction after the hooks, returns the transaction handle, and has a
\* rollback registered that has run once the test is complete, whatever the
\* outcome and whether or not the test wrote through the handle.
C9_WrappedAndRolledBack ==
    \A s \in Sessions :
        (session[s].pc = "returned" /\ ~session[s].opts.NoWrapInTransaction) =>
            /\ session[s].result = "tx"
            /\ session[s].tx # "none"
            /\ \A k \in 1..Len(session[s].hookLog) : session[s].hookLog[k].tx = "none"
            /\ session[s].tx = "open" => Registered(s, "rollback")
            /\ Completed(s) => (session[s].tx = "rolledback" /\ session[s].pending = {})

\* a test that a later call failed, and that never wrote through the handle
\* of its earlier call: rolled back
C9_Witness ==
    \E s \in Sessions :
        /\ session[s].pc = "returned"
        /\ ~session[s].opts.NoWrapInTransaction
        /\ Completed(s)
        /\ SessTest(s).failed
        /\ ~session[s].wrote
        /\ session[s].tx = "rolledback"

\* ---------------------------------------------------------------- C10
\* C10: with DBNoWrapInTransaction no transaction is begun and no rollback is
\* registered; the returned handle is the connection the hooks received, and
\* a row written through it stays until the database is dropped.
C10_NoWrapNoUndo ==
    \A s \in Sessions :
        session[s].opts.NoWrapInTransaction =>
            /\ session[s].tx = "none"
            /\ session[s].pending = {}
            /\ ~Registered(s, "rollback")
            /\ session[s].pc = "returned" =>
                   /\ session[s].result = "conn"
                   /\ \A k \in 1..Len(session[s].hookLog) :
                          session[s].hookLog[k].handle = session[s].result
            /\ (session[s].wrote /\ (session[s].env = EnvDev \/ ~session[s].dropIssued)) =>
                   TestRow(s) \in Committed(s)

\* the test wrote a row, its cleanup has closed the connection, the database
\* is not dropped yet and the row is still there
C10_Witness ==
    \E s \in Sessions :
        /\ session[s].opts.NoWrapInTransaction
        /\ session[s].env = EnvTest
        /\ session[s].wrote
        /\ session[s].conn = "closed"
        /\ ~session[s].dropIssued
        /\ TestRow(s) \in Committed(s)

\* ---------------------------------------------------------------- C11
\* C11: a row written through a DBNoWrapInTransaction handle is still in the
\* database once the dedicated connection is closed and the database is not
\* yet dropped; a row written through a transaction-wrapped handle is in no
\* database, and not read through the handle, once the rollback cleanup ran.
C11_NoWrapKeptWrappedDiscarded ==
    \A s \in Sessions :
        /\ (session[s].wrote /\ session[s].opts.NoWrapInTransaction
              /\ session[s].env = EnvTest
              /\ session[s].conn = "closed" /\ ~session[s].dropIssued) =>
               TestRow(s) \in rows[session[s].name]
        /\ (session[s].wrote /\ ~session[s].opts.NoWrapInTransaction
              /\ ~Registered(s, "rollback")) =>
               /\ TestRow(s) \notin Visible(s, "tx")
               /\ TestRow(s) \notin devRows
               /\ \A n \in TestDBNames : TestRow(s) \notin rows[n]

\* both cases side by side: a wrapped session whose rollback has run while
\* its connection is still open, its row gone, and an unwrapped session
\* closed but not dropped, its row still stored
C11_Witness ==
    \E a, b \in Sessions :
        /\ session[a].wrote /\ ~session[a].opts.NoWrapInTransaction
        /\ session[a].env = EnvTest
        /\ session[a].tx = "rolledback" /\ session[a].conn = "open"
        /\ TestRow(a) \notin Visible(a, "tx")
        /\ session[b].wrote /\ session[b].opts.NoWrapInTransaction
        /\ session[b].env = EnvTest
        /\ session[b].conn = "closed" /\ ~session[b].dropIssued
        /\ TestRow(b) \in rows[session[b].name]

\* ---------------------------------------------------------------- C12
\* C12: a call with an env other than EnvTest and EnvDev fails the test
\* fatally with "Unknown environment" and never returns; the call has opened
\* no connection, created no database, run no hook, begun no transaction and
\* registered no cleanup.
C12_UnknownEnvFatalAtOnce ==
    \A s \in Sessions :
        (Started(s) /\ session[s].env \notin {EnvTest, EnvDev}) =>
            /\ session[s].pc = "goexit"
            /\ session[s].failedAt = "env"
            /\ SessTest(s).failed /\ ~SessTest(s).skipped
            /\ SessTest(s).msg = <<"Unknown environment", session[s].env>>
            /\ session[s].baseDB = 0 /\ session[s].conn = "none"
            /\ session[s].name = NoName /\ ~session[s].created
            /\ session[s].hookLog = <<>> /\ session[s].i = 0
            /\ session[s].tx = "none" /\ session[s].result = "nil"
            /\ ~Registered(s, "closeDrop") /\ ~Registered(s, "rollback")
            /\ connectionsMutex # s

\* the first call of a run named an unknown env and passed hooks: the test
\* is over, nothing was opened or created, no hook ran
C12_Witness ==
    \E s \in Sessions :
        /\ session[s].failedAt = "env"
        /\ session[s].opts.PostInitHooks # <<>>
        /\ SessTest(s).phase = "done"
        /\ opened = <<>> /\ databases = {} /\ connections = <<>>
        /\ \A r \in Sessions : r # s => ~Started(r)

\* ---------------------------------------------------------------- C13
\* C13: when gorm.Open of the base connection fails, getCachedDB returns the
\* error and no connection, the cache gets no entry for it, and the mutex is
\* released; the cache holds only connections that were opened.
C13_FailedOpenNotCachedLockReleased ==
    /\ \A s \in Sessions :
           session[s].err =>
               /\ session[s].baseDB = 0
               /\ session[s].pc \in {"unlock", "goexit"}
               /\ session[s].pc = "goexit" =>
                      /\ session[s].failedAt = "base"
                      /\ connectionsMutex # s
                      /\ SessTest(s).failed
    /\ \A cs \in DOMAIN connections : connections[cs] \in 1..Len(opened)
    /\ opened = <<>> => DOMAIN connections = {}

\* an earlier call failed to open the base connection; a later call with the
\* same connection string took the lock, found no entry and opened it
C13_Witness ==
    \E a, b \in Sessions :
        /\ a < b
        /\ session[a].failedAt = "base"
        /\ ConnStringOf(a) = ConnStringOf(b)
        /\ session[b].baseDB # 0
        /\ Len(opened) = 1
        /\ connections[ConnStringOf(b)] = session[b].baseDB

\* ================================================================ claims on package transaction
\* the contexts of the chain from c up to, not including, the root
RECURSIVE Chain(_, _)
Chain(h, c) == IF c = Background THEN {} ELSE {c} \cup Chain(h, h[c].parent)

Max(S) == CHOOSE x \in S : \A y \in S : y <= x

\* the contexts of c's chain that SetTx or SetTxFunc derived; a derived
\* context is numbered above its parent, so the nearest is the highest
Setters(h, c) == {a \in Chain(h, c) : h[a].by \in {"SetTx", "SetTxFunc"}}
\* the transaction the nearest enclosing SetTx stored, NilDB when it stored
\* nil or when there is no enclosing SetTx
AmbientTx(h, c) ==
    IF Setters(h, c) = {} THEN NilDB ELSE h[Max(Setters(h, c))].val.db
\* SelectForUpdate derived c or a context c derives from
Flagged(h, c) == \E a \in Chain(h, c) : h[a].by = "SelectForUpdate"

\* ---------------------------------------------------------------- C14
\* C14: GetTxOrDefault(defaultDB)(ctx) is a handle on defaultDB's connection,
\* without locking clause, when no transaction is set on ctx's chain, and a
\* handle on the transaction of the nearest enclosing SetTx otherwise; the
\* handle carries ctx.
C14_TxOrDefault ==
    \A c \in Ctxs(ctxs), d \in DefaultDBs :
        LET r == GetTxOrDefault(ctxs, d, c)
        IN  /\ r.ctx = c
            /\ IF AmbientTx(ctxs, c) = NilDB
               THEN r.id = d.id /\ ~r.locking
               ELSE r.id = AmbientTx(ctxs, c).id

\* a SetTx nested in the SetTx of another transaction resolves to the inner
\* one, its parent to the outer one, the root to the default handle
C14_Witness ==
    \E c \in Ctxs(ctxs) \ {Background} :
        LET p == ctxs[c].parent
        IN  /\ p # Background
            /\ ctxs[c].by = "SetTx" /\ ctxs[p].by = "SetTx"
            /\ ctxs[c].val.db = DB("tx2") /\ ctxs[p].val.db = DB("tx1")
            /\ GetTxOrDefault(ctxs, DB("db"), c).id = "tx2"
            /\ GetTxOrDefault(ctxs, DB("db"), p).id = "tx1"
            /\ GetTxOrDefault(ctxs, DB("db"), Background).id = "db"

\* ---------------------------------------------------------------- C15
\* C15: Fix(db)(ctx) is a handle on db's connection carrying ctx, without
\* locking clause, whatever transaction or flag ctx carries.
C15_FixIgnoresContext ==
    \A c \in Ctxs(ctxs), d \in DefaultDBs :
        LET r == Fix(ctxs, d, c)
        IN  r.id = d.id /\ r.ctx = c /\ ~r.locking

\* a context with an ambient transaction and the row-locking flag, on which
\* GetTxOrDefault picks the transaction and Fix the fixed handle
C15_Witness ==
    \E c \in Ctxs(ctxs) :
        /\ Flagged(ctxs, c)
        /\ AmbientTx(ctxs, c) # NilDB
        /\ GetTxOrDefault(ctxs, DB("db"), c).id # "db"
        /\ Fix(ctxs, DB("db"), c).id = "db"

\* ---------------------------------------------------------------- C16
\* C16: GetTx(ctx) is nil when no SetTx is on ctx's chain; on ctx' =
\* SetTx(ctx, tx) without row-locking flag it is exactly tx, whatever
\* transaction ctx carries; on a context derived further it is the
\* transaction of the innermost SetTx.
C16_GetTxInnermost ==
    \A c \in Ctxs(ctxs) :
        /\ Setters(ctxs, c) = {} => GetTx(ctxs, c) = NilDB
        /\ (c # Background /\ ~Flagged(ctxs, c)) =>
               /\ ctxs[c].by = "SetTx" => GetTx(ctxs, c) = ctxs[c].val.db
               /\ GetTx(ctxs, c) = AmbientTx(ctxs, c)
        /\ GetTx(ctxs, c).id = AmbientTx(ctxs, c).id

\* three nested SetTx, the innermost and the outermost of the same
\* transaction: each context yields the transaction of its own SetTx
C16_Witness ==
    /\ Len(ctxs) = 3
    /\ \A c \in 1..3 : ctxs[c].by = "SetTx" /\ ctxs[c].parent = c - 1
    /\ GetTx(ctxs, 1) = DB("tx1")
    /\ GetTx(ctxs, 2) = DB("tx2")
    /\ GetTx(ctxs, 3) = DB("tx1")
    /\ GetTx(ctxs, Background) = NilDB

\* ---------------------------------------------------------------- C17
\* C17: a repository that calls GetTx(ctx) directly gets the ambient
\* transaction when one is set and a usable, non-nil handle otherwise.
C17_GetTxAlwaysUsable ==
    \A c \in Ctxs(ctxs) :
        IF AmbientTx(ctxs, c) # NilDB
        THEN GetTx(ctxs, c).id = AmbientTx(ctxs, c).id
        ELSE GetTx(ctxs, c) # NilDB

\* ---------------------------------------------------------------- C18
\* C18: a step that derives a context adds one context and changes none:
\* GetTx, IsSelectForUpdate and MustGetTx give on every context that existed
\* the result they gave before, so neither the input of the call nor a
\* sibling derived from the same parent is affected.
C18_DerivationLeavesInputUnchanged ==
    [][/\ Len(ctxs') = Len(ctxs) + 1
       /\ ctxs'[Len(ctxs')].parent \in Ctxs(ctxs)
       /\ \A c \in Ctxs(ctxs) :
              /\ GetTx(ctxs', c) = GetTx(ctxs, c)
              /\ IsSelectForUpdate(ctxs', c) = IsSelectForUpdate(ctxs, c)
              /\ MustGetTx(ctxs', c) = MustGetTx(ctxs, c)
              /\ c # Background => ctxs'[c] = ctxs[c]]_ctxVars

\* SetTx and SelectForUpdate each derived a context from the same parent,
\* which carries a transaction: one sibling has its own transaction and no
\* flag, the other the parent's transaction with the clause, and the parent
\* still yields its transaction without the clause
C18_Witness ==
    \E p, a, b \in Ctxs(ctxs) \ {Background} :
        /\ ctxs[p].by = "SetTx" /\ GetTx(ctxs, p) = DB("tx1")
        /\ ctxs[a].parent = p /\ ctxs[b].parent = p
        /\ ctxs[a].by = "SetTx" /\ ctxs[b].by = "SelectForUpdate"
        /\ GetTx(ctxs, a) = DB("tx2")
        /\ GetTx(ctxs, b) = Clauses(DB("tx1"))
        /\ ~IsSelectForUpdate(ctxs, a) /\ ~IsSelectForUpdate(ctxs, p)

\* ---------------------------------------------------------------- C19
\* C19: IsSelectForUpdate is true exactly on the contexts SelectForUpdate
\* derived and on those derived from them; GetTx returns a handle with the
\* FOR UPDATE clause exactly when the context has the flag and an ambient
\* transaction, and it is then that transaction with the clause added, in
\* whatever order SelectForUpdate and SetTx were applied.
C19_LockingIffFlagAndTx ==
    \A c \in Ctxs(ctxs) :
        /\ IsSelectForUpdate(ctxs, c) <=> Flagged(ctxs, c)
        /\ GetTx(ctxs, c).locking <=> (Flagged(ctxs, c) /\ AmbientTx(ctxs, c) # NilDB)
        /\ (Flagged(ctxs, c) /\ AmbientTx(ctxs, c) # NilDB) =>
               GetTx(ctxs, c) = Clauses(AmbientTx(ctxs, c))

\* SetTx(tx1), then SelectForUpdate, then SetTx(tx2): the second context has
\* the transaction set before the flag, the third the one set after it, and
\* both come with the clause; the first, without flag, comes without
C19_Witness ==
    /\ Len(ctxs) = 3
    /\ \A c \in 1..3 : ctxs[c].parent = c - 1
    /\ ctxs[1].by = "SetTx" /\ ctxs[2].by = "SelectForUpdate" /\ ctxs[3].by = "SetTx"
    /\ ~IsSelectForUpdate(ctxs, Background) /\ ~IsSelectForUpdate(ctxs, 1)
    /\ IsSelectForUpdate(ctxs, 2) /\ IsSelectForUpdate(ctxs, 3)
    /\ GetTx(ctxs, 1) = DB("tx1")
    /\ GetTx(ctxs, 2) = Clauses(DB("tx1"))
    /\ GetTx(ctxs, 3) = Clauses(DB("tx2"))

\* ---------------------------------------------------------------- C20
\* C20: MustGetTx(ctx) returns the ambient transaction, never nil, when one
\* is set, and panics when none is set, with or without a logger in ctx.
C20_MustGetTxOrPanic ==
    \A c \in Ctxs(ctxs) :
        LET r == MustGetTx(ctxs, c)
        IN  /\ r.outcome \in {"return", "panic"}
            /\ r.outcome = "return" => r.db # NilDB
            /\ IF AmbientTx(ctxs, c) # NilDB
               THEN r.outcome = "return" /\ r.db = GetTx(ctxs, c)
                    /\ r.db.id = AmbientTx(ctxs, c).id
               ELSE r.outcome = "panic"

\* MustGetTx panics on the root, panics through zap on a context that only
\* has a logger, and returns the transaction set on top of that context
C20_Witness ==
    \E a, b \in Ctxs(ctxs) \ {Background} :
        /\ ctxs[a].by = "WithValue" /\ ctxs[a].val = LoggerValue("*zap.Logger")
        /\ ctxs[b].parent = a /\ ctxs[b].by = "SetTx"
        /\ MustGetTx(ctxs, Background) = Panics("panic")
        /\ MustGetTx(ctxs, a) = Panics("zap")
        /\ MustGetTx(ctxs, b) = Returns(DB("tx1"))

\* ================================================================ claims on the banking example
RECURSIVE SumOf(_, _)
SumOf(b, S) ==
    IF S = {} THEN 0
    ELSE LET a == CHOOSE a \in S : TRUE IN b[a] + SumOf(b, S \ {a})
Total(b) == SumOf(b, Accounts)

\* ---------------------------------------------------------------- C21
\* C21: a transfer that ran with no other transfer in progress and succeeded
\* has debited the source and credited the destination by exactly the amount,
\* the sum of the balances unchanged; one that failed has left every balance
\* as it was.
C21_TransferAtomic ==
    \A x \in Transfers :
        (transfer[x].pc = "done" /\ transfer[x].alone) =>
            LET tr == transfer[x]
            IN  IF tr.err = "none"
                THEN /\ tr.after[tr.fromID] = tr.before[tr.fromID] - tr.amount
                     /\ tr.after[tr.toID] = tr.before[tr.toID] + tr.amount
                     /\ Total(tr.after) = Total(tr.before)
                ELSE tr.after = tr.before

\* ---------------------------------------------------------------- C26
\* C26: whatever the interleaving of transfers between distinct accounts, the
\* sum of the committed balances stays what it was and no balance is negative.
C26_ConcurrentTransfersConserve ==
    (\A x \in Transfers : transfer[x].pc # "idle" => transfer[x].fromID # transfer[x].toID) =>
        /\ Total(balance) = Total([a \in Accounts |-> InitialDeposit])
        /\ \A a \in Accounts : balance[a] >= 0

\* ================================================================ further claims on package dbtesting
\* ---------------------------------------------------------------- C22
\* the session as a second run of its cleanups, in their order, leaves it
CleanedAgain(s) == SqlDBClose(TxRollback(session[s]))

\* C22: for a session whose cleanups have run, running them again fails no
\* test, leaves the transaction rolled back and the connection closed, and
\* adds no database: the dropped one stays dropped.
C22_CleanupIdempotent ==
    \A s \in Sessions :
        /\ session[s].tx = "rolledback" =>
               /\ ~CleanupFatal(TxRollbackErr(session[s]))
               /\ TxRollback(session[s]) = session[s]
        /\ session[s].dropIssued =>
               /\ ~CleanupFatal(DropErr(session[s].name))
               /\ CleanedAgain(s) = session[s]
               /\ DropDatabase(databases, session[s].name) \subseteq databases

\* a wrapped Isolated session of a completed test: rolled back, closed,
\* dropped, and its database gone
C22_Witness ==
    \E s \in Sessions :
        /\ Completed(s)
        /\ session[s].env = EnvTest
        /\ session[s].wrote
        /\ session[s].tx = "rolledback"
        /\ session[s].conn = "closed"
        /\ session[s].dropIssued
        /\ session[s].name \notin databases

\* ---------------------------------------------------------------- C23
IsHook(option) == option \in Hooks
Occurs(option) == \E k \in 1..Len(optionsApplied) : optionsApplied[k] = option

\* C23: the option set the loop builds has DebugOff set exactly when
\* DBDebugOff is among the options and NoWrapInTransaction exactly when
\* DBNoWrapInTransaction is, wherever and however often they appear; its hook
\* list is the DBWithHook options in the order they were passed.
C23_OptionSetOrderIndependent ==
    /\ optsBuilt = FoldOptions(ZeroOptions, optionsApplied)
    /\ optsBuilt.DebugOff <=> Occurs(DBDebugOff)
    /\ optsBuilt.NoWrapInTransaction <=> Occurs(DBNoWrapInTransaction)
    /\ optsBuilt.PostInitHooks = SelectSeq(optionsApplied, IsHook)

\* a flag passed twice around a hook, and a flag between two hooks: the flag
\* is set once, the hooks keep their order
C23_Witness ==
    \/ /\ optionsApplied = <<DBNoWrapInTransaction, DBWithHook("H2"), DBNoWrapInTransaction>>
       /\ optsBuilt = [DebugOff |-> FALSE, NoWrapInTransaction |-> TRUE,
                       PostInitHooks |-> <<"H2">>]
    \/ /\ optionsApplied = <<DBWithHook("H2"), DBDebugOff, DBWithHook("H1")>>
       /\ optsBuilt = [DebugOff |-> TRUE, NoWrapInTransaction |-> FALSE,
                       PostInitHooks |-> <<"H2", "H1">>]

\* ---------------------------------------------------------------- C24
\* C24: GetConfig returns the Shared parameters for EnvDev and the Isolated
\* parameters for every other tag, EnvTest and unknown tags alike; the result
\* is a function of the tag alone.
C24_GetConfigLookup ==
    /\ configGot = GetConfig(envAsked)
    /\ envAsked = EnvDev =>
           configGot = [Host |-> "localhost", Port |-> 5433, User |-> "postgres",
                        Password |-> "devpassword", Database |-> "nova_dev"]
    /\ envAsked # EnvDev =>
           configGot = [Host |-> "localhost", Port |-> 5432, User |-> "postgres",
                        Password |-> "password", Database |-> "postgres"]
    /\ envAsked \notin {EnvTest, EnvDev} => configGot = GetConfig(EnvTest)

\* GetConfig was asked for a tag that is neither EnvTest nor EnvDev
C24_Witness ==
    /\ envAsked \notin {EnvTest, EnvDev}
    /\ configGot.Port = 5432
    /\ configGot.Database = "postgres"

\* ---------------------------------------------------------------- C25
\* the integer a sequence of decimal digits denotes
RECURSIVE Decimal(_)
Decimal(ds) ==
    IF ds = <<>> THEN 0
    ELSE 10 * Decimal(SubSeq(ds, 1, Len(ds) - 1)) + ds[Len(ds)]

\* C25: a generated name is "test_db_" followed by the decimal digits,
\* without leading zero, of an integer n with 0 <= n < 10,000,000.
C25_NameFormAndRange ==
    testDBName # NoName =>
        LET ds == Tail(testDBName)
        IN  /\ Head(testDBName) = "test_db_"
            /\ Len(ds) >= 1
            /\ \A k \in 1..Len(ds) : ds[k] \in 0..9
            /\ Len(ds) > 1 => ds[1] # 0
            /\ Decimal(ds) >= 0
            /\ Decimal(ds) < 10000000

\* the highest name: seven digits
C25_Witness == testDBName = <<"test_db_", 9, 9, 9, 9, 9, 9, 9>>

\* ---------------------------------------------------------------- C27
\* the steps of an Isolated call in the order the claim gives them; the
\* cleanup is registered in the step that opens the dedicated connection
StepRank(pc) ==
    CASE pc = "idle" -> 0
      [] pc = "lock" -> 1
      [] pc = "open" -> 2
      [] pc = "unlock" -> 3
      [] pc = "ping" -> 4
      [] pc = "create" -> 5
      [] pc = "connect" -> 6
      [] pc = "hooks" -> 7
      [] pc = "begin" -> 8
      [] OTHER -> 9

\* what an Isolated session has done implies that every earlier step succeeded
StepsInOrder(s) ==
    LET rec == session[s]
    IN  /\ rec.version # "" => rec.baseDB # 0
        /\ rec.name # NoName => rec.version # ""
        /\ rec.conn # "none" => rec.created
        /\ rec.conn # "none" => (Registered(s, "closeDrop") \/ rec.dropIssued)
        /\ rec.hookLog # <<>> => rec.conn # "none"
        /\ rec.tx # "none" => (rec.conn # "none" /\ rec.i = Len(rec.opts.PostInitHooks))
        /\ rec.failedAt = "base" => (rec.baseDB = 0 /\ rec.version = "")
        /\ rec.failedAt = "ping" => (rec.name = NoName /\ ~rec.created)
        /\ rec.failedAt = "create" => (~rec.created /\ rec.conn = "none")
        /\ rec.failedAt = "connect" => (rec.conn = "none" /\ rec.hookLog = <<>>)
        /\ rec.failedAt = "hook" => rec.tx = "none"
        /\ rec.failedAt # "none" => (rec.pc = "goexit" /\ rec.result = "nil")

\* C27: an Isolated call goes through base connection, liveness query,
\* CREATE DATABASE, dedicated connection with its cleanup, hooks, Begin, in
\* that order and never back; each step is taken only when all earlier ones
\* succeeded, so no CREATE DATABASE follows a failed liveness query.
C27_IsolatedStepsInOrder ==
    /\ [](\A s \in Sessions : (Started(s) /\ session[s].env = EnvTest) => StepsInOrder(s))
    /\ [][\A s \in Sessions :
             (session'[s].env = EnvTest /\ session'[s].pc # session[s].pc) =>
                 StepRank(session'[s].pc) > StepRank(session[s].pc)]_vars

\* one call stopped at the liveness query with no name drawn and no database
\* created; another went through every step, both hooks and Begin included
C27_Witness ==
    \E a, b \in Sessions :
        /\ session[a].env = EnvTest /\ session[a].failedAt = "ping"
        /\ session[a].name = NoName
        /\ session[b].env = EnvTest /\ session[b].pc = "returned"
        /\ session[b].i = 2 /\ session[b].tx = "open"
        /\ databases = {session[b].name}

\* ---------------------------------------------------------------- C28
\* C28: the holder of connectionsMutex is inside getCachedDB: it has taken
\* the lock and is opening the base connection or about to return; a session
\* at the liveness query, CREATE DATABASE, the dedicated connect, a hook or
\* Begin does not hold it, nor does one whose call is over.
C28_LockOnlyInsideGetCachedDB ==
    /\ connectionsMutex # NoHolder =>
           /\ connectionsMutex \in Sessions
           /\ session[connectionsMutex].env = EnvTest
           /\ session[connectionsMutex].pc \in {"open", "unlock"}
    /\ \A s \in Sessions :
           session[s].pc \in {"open", "unlock"} => connectionsMutex = s

\* while one session holds the lock to open the base connection, the session
\* of another test, past getCachedDB, is at its hooks with its database created
C28_Witness ==
    \E a, b \in Sessions :
        /\ session[a].test # session[b].test
        /\ connectionsMutex = a
        /\ session[a].pc = "unlock"
        /\ session[b].env = EnvTest
        /\ session[b].pc = "hooks"
        /\ session[b].conn = "open"

\* ---------------------------------------------------------------- C29
\* the cleanups a test still has to run, each at most once in the list
NoDuplicateCleanups(t) ==
    \A j, k \in 1..Len(test[t].cleanups) :
        test[t].cleanups[j] = test[t].cleanups[k] => j = k

CleanupsRunOnce(s) ==
    /\ Registered(s, "rollback") => session[s].tx = "open"
    /\ Registered(s, "closeDrop") => ~session[s].dropIssued
    /\ SessTest(s).phase = "running" =>
           /\ session[s].tx # "rolledback"
           /\ session[s].conn # "closed"
           /\ ~session[s].dropIssued
    /\ Completed(s) =>
           /\ ~Registered(s, "rollback") /\ ~Registered(s, "closeDrop")
           /\ session[s].tx # "open"
           /\ (session[s].env = EnvTest /\ session[s].conn # "none") =>
                  (session[s].conn = "closed" /\ session[s].dropIssued)

\* C29: a registered cleanup is not run while the test function runs, is run
\* once the test is over however it ended, and is never run twice; every
\* database whose close-and-drop cleanup was registered is dropped by it.
C29_CleanupsRunExactlyOnce ==
    /\ [](/\ \A t \in Tests : NoDuplicateCleanups(t)
          /\ \A s \in Sessions : Started(s) => CleanupsRunOnce(s))
    /\ [][\A s \in Sessions :
             (~session[s].dropIssued /\ session'[s].dropIssued) =>
                 (session[s].name \in databases /\ session[s].name \notin databases')]_vars
    /\ \A s \in Sessions :
           /\ Registered(s, "closeDrop") ~> (session[s].dropIssued /\ Completed(s))
           /\ Registered(s, "rollback") ~> (session[s].tx = "rolledback" /\ Completed(s))

\* a call that a failing hook stopped after its cleanup was registered: the
\* test failed, the connection was closed and the database dropped all the same
C29_Witness ==
    \E s \in Sessions :
        /\ session[s].env = EnvTest
        /\ session[s].failedAt = "hook"
        /\ SessTest(s).failed
        /\ Completed(s)
        /\ session[s].conn = "closed"
        /\ session[s].dropIssued
        /\ session[s].name \notin databases

\* ---------------------------------------------------------------- C30
\* the cache after a step holds every entry it held before, unchanged
CacheKept ==
    /\ DOMAIN connections \subseteq DOMAIN connections'
    /\ \A cs \in DOMAIN connections : connections'[cs] = connections[cs]

\* C30: no step removes or replaces an entry of the cache, and no cached base
\* connection is ever closed: the cached connection strings only grow and each
\* keeps mapping to the connection that was first stored for it, still open.
C30_CachedConnectionsKept ==
    /\ [](\A cs \in DOMAIN connections :
              /\ connections[cs] \in 1..Len(opened)
              /\ opened[connections[cs]] = cs
              /\ connections[cs] \notin closed)
    /\ [][CacheKept]_vars

\* the test that opened the base connection is over, its database closed and
\* dropped, and a call of the other test has found the connection in the cache
C30_Witness ==
    \E a, b \in Sessions :
        /\ Completed(a) /\ Live(b)
        /\ session[a].test # session[b].test
        /\ session[a].env = EnvTest /\ session[b].env = EnvTest
        /\ session[a].dropIssued /\ session[a].conn = "closed"
        /\ Len(opened) = 1
        /\ session[b].baseDB = session[a].baseDB
        /\ ConnStringOf(b) \in DOMAIN connections
        /\ connections[ConnStringOf(b)] = session[a].baseDB
        /\ session[a].baseDB \notin closed

\* ---------------------------------------------------------------- C31
\* C31: in the Isolated environment the cached base connection is not the
\* handle a hook receives, not the handle the transaction is begun on and not
\* the handle returned to the caller, nor what the returned transaction wraps.
C31_BaseConnectionAdministrativeOnly ==
    \A s \in Sessions :
        (Started(s) /\ session[s].env = EnvTest) =>
            /\ session[s].db \in {"nil", "conn", "tx"}
            /\ session[s].result \in {"nil", "conn", "tx"}
            /\ session[s].txOn \in {"nil", "conn"}
            /\ \A k \in 1..Len(session[s].hookLog) : session[s].hookLog[k].handle = "conn"
            /\ session[s].db # "nil" => session[s].conn # "none"

\* a call that got the base connection from the cache, ran a hook and
\* returned a transaction begun on the dedicated connection
C31_Witness ==
    \E s \in Sessions :
        /\ session[s].env = EnvTest
        /\ session[s].pc = "returned"
        /\ session[s].baseDB # 0
        /\ Len(session[s].hookLog) > 0
        /\ session[s].txOn = "conn"
        /\ session[s].result = "tx"

\* ================================================================ claims on the owner's transactions
\* a step of the package: a context was derived
Derived == ctxs' # ctxs
\* the transactions whose state the step changed
Touched == {id \in TxIds : txState'[id] # txState[id]}
Ended(state) == state \in {"committed", "rolledback"}

C33_ResolvesToEndedTransaction ==
    \A k \in 1..Len(ctxs) :
        (ctxs[k].by = "SetTx" /\ ctxs[k].val.db # NilDB) =>
            LET tx == ctxs[k].val.db
            IN  /\ GetTx(ctxs, k).id = tx.id
                /\ \A d \in DefaultDBs :
                       /\ GetTxOrDefault(ctxs, d, k).id = tx.id
                       /\ GetTxOrDefault(ctxs, d, k).id # d.id
                       /\ GetTxOrDefault(ctxs, d, k).ctx = k

\* the owner set tx1 and tx2 and then committed the one and rolled the other back
C33_Witness ==
    \E j, k \in 1..Len(ctxs) :
        /\ ctxs[j].by = "SetTx" /\ ctxs[j].val = DBValue(DB("tx1"))
        /\ ctxs[k].by = "SetTx" /\ ctxs[k].val = DBValue(DB("tx2"))
        /\ txState["tx1"] = "committed"
        /\ txState["tx2"] = "rolledback"
        /\ GetTx(ctxs, j) = DB("tx1")
        /\ GetTx(ctxs, k).id = "tx2"

\* ---------------------------------------------------------------- C34
\* the context carries no transaction: no SetTx or SetTxFunc on its chain, or
\* the nearest one stored nil
NoAmbientTx(c) ==
    \/ Value(ctxs, c, ctxKey) = Absent
    \/ Value(ctxs, c, ctxKey) = DBValue(NilDB)

\* C34: on a context that carries the row-locking flag but no transaction,
\* GetTx returns nil and GetTxOrDefault(defaultDB) is defaultDB on that
\* context, without the locking clause.
C34_FlagAloneHasNoEffect ==
    \A c \in Ctxs(ctxs) :
        (IsSelectForUpdate(ctxs, c) /\ NoAmbientTx(c)) =>
            /\ GetTx(ctxs, c) = NilDB
            /\ \A d \in DefaultDBs :
                   /\ GetTxOrDefault(ctxs, d, c) = WithContext(d, c)
                   /\ ~GetTxOrDefault(ctxs, d, c).locking

\* a flagged context without a transaction, and a context derived from it by
\* SetTx on which the flag does take effect
C34_Witness ==
    \E c, k \in 1..Len(ctxs) :
        /\ ctxs[c].by = "SelectForUpdate"
        /\ NoAmbientTx(c)
        /\ ctxs[k].parent = c /\ ctxs[k].by = "SetTx" /\ ctxs[k].val.db # NilDB
        /\ GetTx(ctxs, k).locking
        /\ GetTx(ctxs, c) = NilDB

\* ---------------------------------------------------------------- C35
\* C35: on a context derived by SetTx(ctx, nil), GetTx returns nil,
\* GetTxOrDefault is the default handle and MustGetTx panics, whatever
\* transaction the contexts above it carry.
C35_NilShadowsOuterTransaction ==
    \A k \in 1..Len(ctxs) :
        (ctxs[k].by = "SetTx" /\ ctxs[k].val = DBValue(NilDB)) =>
            /\ GetTx(ctxs, k) = NilDB
            /\ \A d \in DefaultDBs : GetTxOrDefault(ctxs, d, k) = WithContext(d, k)
            /\ MustGetTx(ctxs, k).outcome = "panic"

\* SetTx(ctx, nil) on a context that resolves to a transaction
C35_Witness ==
    \E k \in 1..Len(ctxs) :
        /\ ctxs[k].by = "SetTx" /\ ctxs[k].val = DBValue(NilDB)
        /\ GetTx(ctxs, ctxs[k].parent) \in Transactions
        /\ MustGetTx(ctxs, ctxs[k].parent).outcome = "return"
        /\ GetTx(ctxs, k) = NilDB

\* ---------------------------------------------------------------- C36
\* the calls of a txFunc made while context k was derived
CallsFor(k) == {j \in 1..Len(txFuncCalls) : txFuncCalls[j].derived = k}

Collided(s) ==
    /\ session[s].env = EnvTest
    /\ session[s].name # NoName
    /\ ~session[s].created

\* C37: a call whose drawn name already exists fails the test fatally at
\* CREATE DATABASE and goes no further: it draws no other name, opens no
\* connection to the database, registers no cleanup and issues no DROP, and
\* the database stays with the live session that created it.
C37_CollisionIsFatalAndHarmless ==
    \A s \in Sessions :
        (Started(s) /\ Collided(s)) =>
            /\ session[s].failedAt = "create"
            /\ SessTest(s).failed
            /\ session[s].result = "nil"
            /\ session[s].conn = "none"
            /\ ~Registered(s, "closeDrop") /\ ~Registered(s, "rollback")
            /\ ~session[s].dropIssued
            /\ \A r \in Sessions :
                   (r # s /\ Started(r) /\ session[r].env = EnvTest
                        /\ session[r].name = session[s].name
                        /\ session[r].created /\ ~session[r].dropIssued) =>
                       session[r].name \in databases

\* a call of one test has failed on the name of a database that a live
\* session of the other test created and still uses
C37_Witness ==
    \E s, r \in Sessions :
        /\ Started(s) /\ Started(r)
        /\ Collided(s)
        /\ Completed(s)
        /\ session[r].env = EnvTest
        /\ session[r].name = session[s].name
        /\ session[r].created /\ session[r].conn = "open" /\ Live(r)
        /\ session[r].name \in databases

\* ---------------------------------------------------------------- C38
\* the liveness query of the session failed
PingFailed(s) == Started(s) /\ session[s].env = EnvTest /\ session[s].failedAt = "ping"

\* C38: after a failed liveness query the cache still maps the connection
\* string to the connection that was queried, no other base connection is
\* ever opened for it, and a call that then asks the cache gets that one.
C38_FailedPingKeepsCacheEntry ==
    /\ [](\A s \in Sessions :
              PingFailed(s) =>
                  /\ ConnStringOf(s) \in DOMAIN connections
                  /\ connections[ConnStringOf(s)] = session[s].baseDB
                  /\ session[s].baseDB \notin closed
                  /\ \A r \in Sessions :
                         (Started(r) /\ session[r].env = EnvTest /\ session[r].baseDB # 0) =>
                             session[r].baseDB = session[s].baseDB)
    /\ [][\A s, r \in Sessions :
             (PingFailed(s) /\ session[r].baseDB = 0 /\ session'[r].baseDB # 0) =>
                 (session'[r].baseDB = session[s].baseDB /\ opened' = opened)]_vars

\* the test of the failed call is over, and another call is running on the
\* same base connection, the only one that was ever opened
C38_Witness ==
    \E s, r \in Sessions :
        /\ PingFailed(s) /\ Completed(s)
        /\ Started(r) /\ session[r].env = EnvTest
        /\ session[r].baseDB = session[s].baseDB
        /\ session[r].created /\ Live(r)
        /\ Len(opened) = 1

\* ---------------------------------------------------------------- C39
\* C39: a Shared call takes no connection from the cache and adds none to it,
\* registers no cleanup but the rollback of its transaction, and its own
\* connection, once opened, is never closed, not even when the test is over.
C39_SharedConnectionNeverClosed ==
    /\ \A s \in Sessions :
           (Started(s) /\ session[s].env = EnvDev) =>
               /\ session[s].baseDB = 0
               /\ ~Registered(s, "closeDrop")
               /\ ~session[s].dropIssued
               /\ session[s].conn \in {"none", "open"}
               /\ session[s].db # "nil" => session[s].conn = "open"
               /\ \A t \in Tests : \A k \in 1..Len(test[t].cleanups) :
                      test[t].cleanups[k].s = s => test[t].cleanups[k].kind = "rollback"
    /\ (\A s \in Sessions : Started(s) => session[s].env = EnvDev) =>
           (connections = <<>> /\ opened = <<>>)

\* two Shared calls of tests that are over: the one rolled its transaction
\* back, the other had none, and both connections are still open
C39_Witness ==
    \E s, r \in Sessions :
        /\ Completed(s) /\ Completed(r)
        /\ session[s].env = EnvDev /\ session[r].env = EnvDev
        /\ session[s].tx = "rolledback" /\ session[s].conn = "open"
        /\ session[r].tx = "none" /\ session[r].result = "conn" /\ session[r].conn = "open"
        /\ opened = <<>>

====
